---- MODULE Spec2Model ----
(***************************************************************************)
(* Instance lifecycle supervisor of the container daemon:                  *)
(*   containersShutdown, containersRestart   (mass shutdown / restart-all) *)
(*   containersWatch, containerWatchEphemeral (ephemeral auto-reaping)     *)
(*   containerDeleteSnapshots                 (snapshot cleanup)           *)
(* Each entry point is a process whose program counter follows the lines   *)
(* of the Go source; calls into the metadata store, the container runtime  *)
(* and the filesystem return success or failure nondeterministically       *)
(* wherever the source tests (or drops) their error result.                *)
(***************************************************************************)
EXTENDS Integers, Sequences, FiniteSets, TLC

\* ---------------------------------------------------------------- bounds
NumInst == 3

Insts == 1..NumInst

\* ----------------------------------------------------------------- state
VARIABLES
  present,      \* present[i]: instance i has a row (type regular) in the store
  ephemeral,    \* ephemeral[i]: the row's ephemeral flag
  running,      \* running[i]: runtime state of instance i (RUNNING / STOPPED)
  power_state,  \* power_state[i]: the persisted power_state column
  \* containersShutdown
  sd_pc, sd_results, sd_i, sd_ret, wg, wk,
  sd_visited, sd_foundRunning, sd_attempts, sd_timedOut,
  \* containersRestart
  rs_pc, rs_result, rs_i, rs_ret, rs_cleared, rs_attempted, rs_startFailed,
  \* containersWatch, containerWatchEphemeral and the instances' environment
  cw_pc, cw_result, cw_i, cw_ret, cw_atQuery, w_pc, w_seen, restarts,
  restarting, w_delAbsent, w_delRunning,
  \* containerDeleteSnapshots
  rows,         \* rows[id]: type of the row with that id ("none" if no row)
  storage,      \* names whose backing storage directory exists
  sn_cname, sn_pc, sn_results, sn_ids, sn_backingFs, sn_k, sn_j, sn_ret,
  sn_run, sn_attempted, sn_deleted, sn_failedAfterRemoval,
  \* startContainer (forkstart)
  fk_args,      \* the argument vector
  fk_files,     \* the paths at which a file exists
  fk_pc, fk_ret, fk_started,
  \* snapshotProtobufToInstanceArgs
  tr_project, tr_containerName, tr_snap, tr_args, tr_pc,
  \* execWs session
  ss_pc, ss_interactive, ss_waitForWS, ss_conns, ss_allConnected,
  ss_controlConnected, ss_started, ss_relayed, ss_failed, ss_done,
  ss_attempts, ss_first

instVars == <<present, ephemeral, running, power_state>>
sdVars == <<sd_pc, sd_results, sd_i, sd_ret, wg, wk,
            sd_visited, sd_foundRunning, sd_attempts, sd_timedOut>>
rsVars == <<rs_pc, rs_result, rs_i, rs_ret, rs_cleared, rs_attempted,
            rs_startFailed>>
cwVars == <<cw_pc, cw_result, cw_i, cw_ret, cw_atQuery, w_pc, w_seen,
            restarts, restarting, w_delAbsent, w_delRunning>>
snVars == <<rows, storage, sn_cname, sn_pc, sn_results, sn_ids, sn_backingFs,
            sn_k, sn_j, sn_ret, sn_run, sn_attempted, sn_deleted,
            sn_failedAfterRemoval>>
fkVars == <<fk_args, fk_files, fk_pc, fk_ret, fk_started>>
trVars == <<tr_project, tr_containerName, tr_snap, tr_args, tr_pc>>
ssVars ==
  <<ss_pc, ss_interactive, ss_waitForWS, ss_conns, ss_allConnected,
    ss_controlConnected, ss_started, ss_relayed, ss_failed, ss_done,
    ss_attempts, ss_first>>
extVars == <<fkVars, trVars, ssVars>>
vars == <<instVars, sdVars, rsVars, cwVars, snVars, extVars>>
sdOther == <<rsVars, cwVars, snVars, extVars>>
rsOther == <<sdVars, cwVars, snVars, extVars>>
cwOther == <<sdVars, rsVars, snVars, extVars>>
snOther == <<instVars, sdVars, rsVars, cwVars, extVars>>

\* --------------------------------------------------------------- helpers
Min(S) == CHOOSE x \in S : \A y \in S : x <= y

Range(s) == {s[k] : k \in 1..Len(s)}

\* The rows a SELECT returns, in row order.
RECURSIVE RowsOf(_)
RowsOf(S) == IF S = {} THEN <<>>
             ELSE <<Min(S)>> \o RowsOf(S \ {Min(S)})

\* d.ListRegularContainers(): names of the rows of type regular.
ListRegularContainers == RowsOf({i \in Insts : present[i]})

\* SELECT name FROM containers WHERE type=? AND power_state=1
PowerStateQuery == RowsOf({i \in Insts : present[i] /\ power_state[i] = 1})

InstInit ==
  /\ present \in [Insts -> BOOLEAN]
  /\ ephemeral \in [Insts -> BOOLEAN]
  /\ power_state \in [Insts -> {0, 1}]
  /\ \A i \in Insts : ~present[i] => (~ephemeral[i] /\ power_state[i] = 0)

SdIdle ==
  /\ sd_pc = "idle" /\ sd_results = <<>> /\ sd_i = 0 /\ sd_ret = "none"
  /\ wg = 0 /\ wk = [i \in Insts |-> "none"]
  /\ sd_visited = {} /\ sd_foundRunning = {} /\ sd_timedOut = {}
  /\ sd_attempts = [i \in Insts |-> 0]

RsIdle ==
  /\ rs_pc = "idle" /\ rs_result = <<>> /\ rs_i = 0 /\ rs_ret = "none"
  /\ rs_cleared = FALSE /\ rs_attempted = {} /\ rs_startFailed = {}

CwIdle ==
  /\ cw_pc = "idle" /\ cw_result = <<>> /\ cw_i = 0 /\ cw_ret = "none"
  /\ cw_atQuery = {}
  /\ w_pc = [i \in Insts |-> "none"] /\ w_seen = [i \in Insts |-> 0]
  /\ restarts = 0 /\ restarting = [i \in Insts |-> FALSE]
  /\ w_delAbsent = {} /\ w_delRunning = {}

SnIdle ==
  /\ rows = <<>> /\ storage = {} /\ sn_cname = <<>>
  /\ sn_pc = "idle" /\ sn_results = <<>> /\ sn_ids = <<>> /\ sn_backingFs = ""
  /\ sn_k = 0 /\ sn_j = 0 /\ sn_ret = "none" /\ sn_run = 0
  /\ sn_attempted = {} /\ sn_deleted = {} /\ sn_failedAfterRemoval = FALSE

InstIdle ==
  /\ present = [i \in Insts |-> FALSE]
  /\ ephemeral = [i \in Insts |-> FALSE]
  /\ running = [i \in Insts |-> FALSE]
  /\ power_state = [i \in Insts |-> 0]

FkIdle ==
  /\ fk_args = <<>> /\ fk_files = {} /\ fk_pc = "idle" /\ fk_ret = "none"
  /\ fk_started = FALSE

TrIdle ==
  /\ tr_project = "" /\ tr_containerName = <<>> /\ tr_snap = <<>>
  /\ tr_args = <<>> /\ tr_pc = "idle"

SsIdle ==
  /\ ss_pc = "idle" /\ ss_interactive = FALSE /\ ss_waitForWS = FALSE
  /\ ss_conns = <<>> /\ ss_allConnected = FALSE
  /\ ss_controlConnected = FALSE /\ ss_started = FALSE
  /\ ss_relayed = <<>> /\ ss_failed = {} /\ ss_done = <<>>
  /\ ss_attempts = 0 /\ ss_first = "none"

ExtIdle == FkIdle /\ TrIdle /\ SsIdle

\* =========================================================================
\* containersShutdown
\* =========================================================================
InitShutdown ==
  /\ InstInit
  /\ \A i \in Insts : ~ephemeral[i]
  /\ running \in [Insts -> BOOLEAN]
  /\ \A i \in Insts : running[i] => present[i]
  /\ SdIdle /\ RsIdle /\ CwIdle /\ SnIdle /\ ExtIdle

sd_Return(r) ==
  /\ sd_pc' = "done"
  /\ sd_ret' = r

\* results, err := d.ListRegularContainers()
sd_List ==
  /\ sd_pc = "idle"
  /\ \/ /\ sd_pc' = "new"
        /\ sd_results' = ListRegularContainers
        /\ sd_i' = 1
        /\ sd_ret' = sd_ret
     \/ /\ sd_Return("err")
        /\ UNCHANGED <<sd_results, sd_i>>
  /\ UNCHANGED <<instVars, sdOther, wg, wk, sd_visited, sd_foundRunning,
                 sd_attempts, sd_timedOut>>

\* for _, r := range results { container, err := newLxdContainer(r, d) ...
\* and, once the range is exhausted, return nil
sd_New ==
  /\ sd_pc = "new"
  /\ IF sd_i > Len(sd_results)
       THEN /\ sd_Return("nil")
            /\ UNCHANGED sd_visited
       ELSE \/ /\ sd_pc' = "check"
               /\ sd_visited' = sd_visited \cup {sd_results[sd_i]}
               /\ sd_ret' = sd_ret
            \/ /\ sd_Return("err")
               /\ UNCHANGED sd_visited
  /\ UNCHANGED <<instVars, sdOther, sd_results, sd_i, wg, wk,
                 sd_foundRunning, sd_attempts, sd_timedOut>>

\* if container.IsRunning() {
sd_IsRunning ==
  /\ sd_pc = "check"
  /\ IF running[sd_results[sd_i]]
       THEN /\ sd_pc' = "setflag"
            /\ sd_foundRunning' = sd_foundRunning \cup {sd_results[sd_i]}
       ELSE /\ sd_pc' = "wait"
            /\ UNCHANGED sd_foundRunning
  /\ UNCHANGED <<instVars, sdOther, sd_results, sd_i, sd_ret, wg, wk,
                 sd_visited, sd_attempts, sd_timedOut>>

sd_SetPowerState_NoUpdate ==
  /\ sd_pc = "setflag"
  /\ sd_pc' = "spawn"
  /\ UNCHANGED <<instVars, sdOther, sd_results, sd_i, sd_ret, wg, wk,
                 sd_visited, sd_foundRunning, sd_attempts, sd_timedOut>>

\* dbExec(d.db, "UPDATE containers SET power_state=1 WHERE name=?", ...)
sd_SetPowerState ==
  /\ sd_pc = "setflag"
  /\ \/ /\ power_state' = [power_state EXCEPT ![sd_results[sd_i]] = 1]
        /\ sd_pc' = "spawn"
        /\ sd_ret' = sd_ret
     \/ /\ sd_Return("err")
        /\ UNCHANGED power_state
  /\ UNCHANGED <<present, ephemeral, running, sdOther, sd_results, sd_i, wg,
                 wk, sd_visited, sd_foundRunning, sd_attempts, sd_timedOut>>

\* wg.Add(1); go func() { ... }()
sd_Spawn ==
  /\ sd_pc = "spawn"
  /\ wg' = wg + 1
  /\ wk' = [wk EXCEPT ![sd_results[sd_i]] = "shutdown"]
  /\ sd_attempts' = [sd_attempts EXCEPT ![sd_results[sd_i]] = @ + 1]
  /\ sd_pc' = "wait"
  /\ UNCHANGED <<instVars, sdOther, sd_results, sd_i, sd_ret, sd_visited,
                 sd_foundRunning, sd_timedOut>>

WaitReturns_NoJoin == TRUE

\* wg.Wait() returns when the counter is zero.
WaitReturns == wg = 0

\* wg.Wait() at the end of the loop body, then the next iteration.
sd_Wait ==
  /\ sd_pc = "wait"
  /\ WaitReturns
  /\ sd_i' = sd_i + 1
  /\ sd_pc' = "new"
  /\ UNCHANGED <<instVars, sdOther, sd_results, sd_ret, wg, wk, sd_visited,
                 sd_foundRunning, sd_attempts, sd_timedOut>>

\* container.Shutdown(time.Second * 30): the instance stops within the
\* timeout, or the timeout elapses with the instance still running.
wk_Shutdown(i) ==
  /\ wk[i] = "shutdown"
  /\ \/ /\ running' = [running EXCEPT ![i] = FALSE]
        /\ UNCHANGED sd_timedOut
     \/ /\ running[i]
        /\ sd_timedOut' = sd_timedOut \cup {i}
        /\ UNCHANGED running
  /\ wk' = [wk EXCEPT ![i] = "stop"]
  /\ UNCHANGED <<present, ephemeral, power_state, sdOther, sd_pc, sd_results,
                 sd_i, sd_ret, wg, sd_visited, sd_foundRunning, sd_attempts>>

\* container.Stop(): the forced stop.
wk_Stop(i) ==
  /\ wk[i] = "stop"
  /\ running' = [running EXCEPT ![i] = FALSE]
  /\ wk' = [wk EXCEPT ![i] = "wgdone"]
  /\ UNCHANGED <<present, ephemeral, power_state, sdOther, sd_pc, sd_results,
                 sd_i, sd_ret, wg, sd_visited, sd_foundRunning, sd_attempts,
                 sd_timedOut>>

\* wg.Done()
wk_Done(i) ==
  /\ wk[i] = "wgdone"
  /\ wg' = wg - 1
  /\ wk' = [wk EXCEPT ![i] = "exited"]
  /\ UNCHANGED <<instVars, sdOther, sd_pc, sd_results, sd_i, sd_ret,
                 sd_visited, sd_foundRunning, sd_attempts, sd_timedOut>>

containersShutdown ==
  \/ sd_List
  \/ sd_New
  \/ sd_IsRunning
  \/ sd_SetPowerState
  \/ sd_Spawn
  \/ sd_Wait
  \/ \E i \in Insts : wk_Shutdown(i)
  \/ \E i \in Insts : wk_Stop(i)
  \/ \E i \in Insts : wk_Done(i)

SpecShutdown == InitShutdown /\ [][containersShutdown]_vars

\* =========================================================================
\* containersRestart
\* =========================================================================
InitRestart ==
  /\ InstInit
  /\ \A i \in Insts : ~ephemeral[i]
  /\ running = [i \in Insts |-> FALSE]
  /\ SdIdle /\ RsIdle /\ CwIdle /\ SnIdle /\ ExtIdle

rs_Return(r) ==
  /\ rs_pc' = "done"
  /\ rs_ret' = r

\* result, err := dbQueryScan(d.db, q, inargs, outfmt)
rs_Query ==
  /\ rs_pc = "idle"
  /\ \/ /\ rs_result' = PowerStateQuery
        /\ rs_pc' = "clear"
        /\ rs_ret' = rs_ret
     \/ /\ rs_Return("err")
        /\ UNCHANGED rs_result
  /\ UNCHANGED <<instVars, rsOther, rs_i, rs_cleared, rs_attempted,
                 rs_startFailed>>

rs_Clear_NoUpdate ==
  /\ rs_pc = "clear"
  /\ rs_cleared' = TRUE
  /\ rs_i' = 1
  /\ rs_pc' = "new"
  /\ UNCHANGED <<instVars, rsOther, rs_result, rs_ret, rs_attempted,
                 rs_startFailed>>

\* dbExec(d.db, "UPDATE containers SET power_state=0")
rs_Clear ==
  /\ rs_pc = "clear"
  /\ \/ /\ power_state' = [i \in Insts |-> 0]
        /\ rs_cleared' = TRUE
        /\ rs_i' = 1
        /\ rs_pc' = "new"
        /\ rs_ret' = rs_ret
     \/ /\ rs_Return("err")
        /\ UNCHANGED <<power_state, rs_cleared, rs_i>>
  /\ UNCHANGED <<present, ephemeral, running, rsOther, rs_result,
                 rs_attempted, rs_startFailed>>

\* for _, r := range result { container, err := newLxdContainer(...) ...
\* and, once the range is exhausted, return nil
rs_New ==
  /\ rs_pc = "new"
  /\ IF rs_i > Len(rs_result)
       THEN rs_Return("nil")
       ELSE \/ /\ rs_pc' = "start"
               /\ rs_ret' = rs_ret
            \/ rs_Return("err")
  /\ UNCHANGED <<instVars, rsOther, rs_result, rs_i, rs_cleared,
                 rs_attempted, rs_startFailed>>

\* The instance's start operation: on success the instance runs and its
\* persisted power-state is updated to running; on failure nothing changes.
Start(i, ok) ==
  IF ok
    THEN /\ running' = [running EXCEPT ![i] = TRUE]
         /\ power_state' = [power_state EXCEPT ![i] = 1]
    ELSE UNCHANGED <<running, power_state>>

\* container.Start() -- the result is dropped.
rs_Start ==
  /\ rs_pc = "start"
  /\ \E ok \in BOOLEAN :
       /\ Start(rs_result[rs_i], ok)
       /\ rs_startFailed' = IF ok THEN rs_startFailed
                            ELSE rs_startFailed \cup {rs_result[rs_i]}
  /\ rs_attempted' = rs_attempted \cup {rs_result[rs_i]}
  /\ rs_i' = rs_i + 1
  /\ rs_pc' = "new"
  /\ UNCHANGED <<present, ephemeral, rsOther, rs_result, rs_ret, rs_cleared>>

containersRestart ==
  \/ rs_Query
  \/ rs_Clear
  \/ rs_New
  \/ rs_Start

SpecRestart == InitRestart /\ [][containersRestart]_vars

\* =========================================================================
\* containersWatch, containerWatchEphemeral
\* =========================================================================
MaxRestarts == 2

InitWatch ==
  /\ InstInit
  /\ power_state = [i \in Insts |-> 0]
  /\ running \in [Insts -> BOOLEAN]
  /\ \A i \in Insts : running[i] => present[i]
  /\ SdIdle /\ RsIdle /\ CwIdle /\ SnIdle /\ ExtIdle

cw_Return(r) ==
  /\ cw_pc' = "done"
  /\ cw_ret' = r

\* result, err := dbQueryScan(d.db, q, inargs, outfmt)
cw_Query ==
  /\ cw_pc = "idle"
  /\ \/ /\ cw_result' = ListRegularContainers
        /\ cw_atQuery' = {i \in Insts : /\ present[i] /\ ephemeral[i]
                                         /\ running[i]}
        /\ cw_i' = 1
        /\ cw_pc' = "new"
        /\ cw_ret' = cw_ret
     \/ /\ cw_Return("err")
        /\ UNCHANGED <<cw_result, cw_i, cw_atQuery>>
  /\ UNCHANGED <<instVars, cwOther, w_pc, w_seen, restarts, restarting,
                 w_delAbsent, w_delRunning>>

\* for _, r := range result { container, err := newLxdContainer(...) ...
\* and, once the range is exhausted, runtime.GC(); return nil
cw_New ==
  /\ cw_pc = "new"
  /\ IF cw_i > Len(cw_result)
       THEN cw_Return("nil")
       ELSE \/ /\ cw_pc' = "check"
               /\ cw_ret' = cw_ret
            \/ cw_Return("err")
  /\ UNCHANGED <<instVars, cwOther, cw_result, cw_i, cw_atQuery, w_pc,
                 w_seen, restarts,
                 restarting, w_delAbsent, w_delRunning>>

\* containerWatchEphemeral(d, c): go func() { ... }()
containerWatchEphemeral(i) == w_pc' = [w_pc EXCEPT ![i] = "get"]

\* if container.IsEmpheral() && container.IsRunning() { ... }
cw_Check ==
  /\ cw_pc = "check"
  /\ IF ephemeral[cw_result[cw_i]] /\ running[cw_result[cw_i]]
       THEN containerWatchEphemeral(cw_result[cw_i])
       ELSE UNCHANGED w_pc
  /\ cw_i' = cw_i + 1
  /\ cw_pc' = "new"
  /\ UNCHANGED <<instVars, cwOther, cw_result, cw_ret, cw_atQuery, w_seen,
                 restarts,
                 restarting, w_delAbsent, w_delRunning>>

w_Goto(i, l) == w_pc' = [w_pc EXCEPT ![i] = l]

\* lxContainer, err := c.LXContainerGet(); if err != nil { return }
w_Get(i) ==
  /\ w_pc[i] = "get"
  /\ \/ w_Goto(i, "wait1")
     \/ w_Goto(i, "exit")
  /\ UNCHANGED <<instVars, cwOther, cw_pc, cw_result, cw_i, cw_ret,
                 cw_atQuery, w_seen,
                 restarts, restarting, w_delAbsent, w_delRunning>>

\* lxContainer.Wait(lxc.STOPPED, -1*time.Second): no timeout.
w_Wait1(i) ==
  /\ w_pc[i] = "wait1"
  /\ ~running[i]
  /\ w_Goto(i, "wait2")
  /\ w_seen' = [w_seen EXCEPT ![i] = 1]
  /\ UNCHANGED <<instVars, cwOther, cw_pc, cw_result, cw_i, cw_ret, cw_atQuery,
                 restarts, restarting, w_delAbsent, w_delRunning>>

\* lxContainer.Wait(lxc.RUNNING, 1*time.Second): returns when the instance
\* runs, or after one second; the second does not elapse inside a restart,
\* whose start follows its stop immediately.
w_Wait2(i) ==
  /\ w_pc[i] = "wait2"
  /\ running[i] \/ ~restarting[i]
  /\ w_Goto(i, "wait3")
  /\ w_seen' = [w_seen EXCEPT ![i] = 2]
  /\ UNCHANGED <<instVars, cwOther, cw_pc, cw_result, cw_i, cw_ret, cw_atQuery,
                 restarts, restarting, w_delAbsent, w_delRunning>>

\* lxContainer.Wait(lxc.STOPPED, -1*time.Second): no timeout.
w_Wait3(i) ==
  /\ w_pc[i] = "wait3"
  /\ ~running[i]
  /\ w_Goto(i, "idget")
  /\ w_seen' = [w_seen EXCEPT ![i] = 3]
  /\ UNCHANGED <<instVars, cwOther, cw_pc, cw_result, cw_i, cw_ret, cw_atQuery,
                 restarts, restarting, w_delAbsent, w_delRunning>>

\* _, err = dbContainerIDGet(d.db, c.NameGet()); if err != nil { return }
\* The query fails when the row is absent, and may fail otherwise.
w_IDGet(i) ==
  /\ w_pc[i] = "idget"
  /\ \/ /\ present[i]
        /\ w_Goto(i, "delete")
     \/ w_Goto(i, "exit")
  /\ UNCHANGED <<instVars, cwOther, cw_pc, cw_result, cw_i, cw_ret,
                 cw_atQuery, w_seen,
                 restarts, restarting, w_delAbsent, w_delRunning>>

\* The instance's delete operation: its row leaves the metadata store.
Delete(i) == present' = [present EXCEPT ![i] = FALSE]

\* c.Delete()
w_Delete(i) ==
  /\ w_pc[i] = "delete"
  /\ Delete(i)
  /\ w_delAbsent' = IF present[i] THEN w_delAbsent ELSE w_delAbsent \cup {i}
  /\ w_delRunning' = IF running[i] THEN w_delRunning \cup {i}
                     ELSE w_delRunning
  /\ w_Goto(i, "exit")
  /\ UNCHANGED <<ephemeral, running, power_state, cwOther, cw_pc, cw_result,
                 cw_i, cw_ret, cw_atQuery, w_seen, restarts, restarting>>

watcher(i) ==
  \/ w_Get(i)
  \/ w_Wait1(i)
  \/ w_Wait2(i)
  \/ w_Wait3(i)
  \/ w_IDGet(i)
  \/ w_Delete(i)

\* The instance stops (and stays stopped unless a restart is under way).
env_Stop(i) ==
  /\ running[i]
  /\ running' = [running EXCEPT ![i] = FALSE]
  /\ UNCHANGED <<present, ephemeral, power_state, cwOther, cwVars>>

\* restart is stop-then-start: the stop half.
env_RestartStop(i) ==
  /\ running[i]
  /\ restarts < MaxRestarts
  /\ restarts' = restarts + 1
  /\ restarting' = [restarting EXCEPT ![i] = TRUE]
  /\ running' = [running EXCEPT ![i] = FALSE]
  /\ UNCHANGED <<present, ephemeral, power_state, cwOther, cw_pc, cw_result,
                 cw_i, cw_ret, cw_atQuery, w_pc, w_seen, w_delAbsent,
                 w_delRunning>>

\* restart is stop-then-start: the start half (fails on a deleted instance).
env_RestartStart(i) ==
  /\ restarting[i]
  /\ restarting' = [restarting EXCEPT ![i] = FALSE]
  /\ running' = [running EXCEPT ![i] = present[i]]
  /\ UNCHANGED <<present, ephemeral, power_state, cwOther, cw_pc, cw_result,
                 cw_i, cw_ret, cw_atQuery, w_pc, w_seen, restarts, w_delAbsent,
                 w_delRunning>>

\* An explicit delete of a stopped instance by another path.
env_Delete(i) ==
  /\ present[i]
  /\ ~running[i]
  /\ ~restarting[i]
  /\ Delete(i)
  /\ UNCHANGED <<ephemeral, running, power_state, cwOther, cwVars>>

containersWatch ==
  \/ cw_Query
  \/ cw_New
  \/ cw_Check

NextWatch ==
  \/ containersWatch
  \/ \E i \in Insts : watcher(i)
  \/ \E i \in Insts : env_Stop(i)
  \/ \E i \in Insts : env_RestartStop(i)
  \/ \E i \in Insts : env_RestartStart(i)
  \/ \E i \in Insts : env_Delete(i)

SpecWatch == InitWatch /\ [][NextWatch]_vars

\* The supervisor and every watcher goroutine keep being scheduled, and the
\* start of a restart follows its stop.
FairSpecWatch ==
  /\ SpecWatch
  /\ WF_vars(containersWatch)
  /\ \A i \in Insts : WF_vars(watcher(i)) /\ WF_vars(env_RestartStart(i))

\* =========================================================================
\* containerDeleteSnapshots
\* =========================================================================
MaxSnaps == 2
MaxRuns == 2

\* shared.SnapshotDelimiter
SnapshotDelimiter == <<"/">>

\* Names are sequences of characters.  Two primary instances, one a proper
\* prefix of the other, and up to MaxSnaps snapshots of each.
Parents == <<(<<"a">>), (<<"a", "b">>)>>
SnapLabels == <<"s", "t", "u", "v">>

\* The containers table: the row with id 10*p has the name of primary p, the
\* row with id 10*p+k the name of its k-th snapshot.
Ids == {10 * p + k : p \in 1..Len(Parents), k \in 0..MaxSnaps}

NameOf(id) ==
  IF id % 10 = 0 THEN Parents[id \div 10]
  ELSE Parents[id \div 10] \o SnapshotDelimiter \o <<SnapLabels[id % 10]>>

\* SUBSTR(name,1,length)
SUBSTR(name, length) ==
  SubSeq(name, 1, IF length < Len(name) THEN length ELSE Len(name))

SnapshotQuery_NoDelimiter(cname) ==
  LET hit == {id \in Ids : /\ rows[id] = "snapshot"
                           /\ SUBSTR(NameOf(id), Len(cname)) = cname}
      ord == RowsOf(hit)
  IN  [k \in 1..Len(ord) |-> [name |-> NameOf(ord[k]), id |-> ord[k]]]

\* SELECT name, id FROM containers
\*   WHERE type=cTypeSnapshot AND SUBSTR(name,1,length)=prefix
SnapshotQuery(cname) ==
  LET prefix == cname \o SnapshotDelimiter
      length == Len(prefix)
      hit == {id \in Ids : /\ rows[id] = "snapshot"
                           /\ SUBSTR(NameOf(id), length) = prefix}
      ord == RowsOf(hit)
  IN  [k \in 1..Len(ord) |-> [name |-> NameOf(ord[k]), id |-> ord[k]]]

InitSnapshots ==
  /\ present = [i \in Insts |-> FALSE]
  /\ ephemeral = [i \in Insts |-> FALSE]
  /\ running = [i \in Insts |-> FALSE]
  /\ power_state = [i \in Insts |-> 0]
  /\ SdIdle /\ RsIdle /\ CwIdle /\ ExtIdle
  /\ rows \in [Ids -> {"none", "regular", "snapshot"}]
  /\ \A id \in Ids : IF id % 10 = 0 THEN rows[id] = "regular"
                     ELSE rows[id] \in {"none", "snapshot"}
  /\ storage = {NameOf(id) : id \in {x \in Ids : rows[x] # "none"}}
  /\ sn_cname \in Range(Parents)
  /\ sn_pc = "idle" /\ sn_results = <<>> /\ sn_ids = <<>> /\ sn_backingFs = ""
  /\ sn_k = 0 /\ sn_j = 0 /\ sn_ret = "none" /\ sn_run = 1
  /\ sn_attempted = {} /\ sn_deleted = {} /\ sn_failedAfterRemoval = FALSE

sn_Return(r) ==
  /\ sn_pc' = "done"
  /\ sn_ret' = r

\* results, err := dbQueryScan(d.db, q, inargs, outfmt)
sn_Query ==
  /\ sn_pc = "idle"
  /\ \/ /\ sn_results' = SnapshotQuery(sn_cname)
        /\ sn_pc' = "detect"
        /\ sn_ret' = sn_ret
     \/ /\ sn_Return("err")
        /\ UNCHANGED sn_results
  /\ UNCHANGED <<snOther, rows, storage, sn_cname, sn_ids, sn_backingFs,
                 sn_k, sn_j, sn_run, sn_attempted, sn_deleted,
                 sn_failedAfterRemoval>>

\* backingFs, err := filesystemDetect(shared.VarPath("containers", cname))
\* if err != nil && !os.IsNotExist(err) { return err }
sn_Detect ==
  /\ sn_pc = "detect"
  /\ \E r \in {"btrfs", "ext4", "notexist", "err"} :
       IF r = "err"
         THEN /\ sn_Return("err")
              /\ UNCHANGED <<sn_backingFs, sn_k, sn_j>>
         ELSE /\ sn_backingFs' = IF r = "notexist" THEN "" ELSE r
              /\ sn_k' = 1
              /\ sn_j' = 1
              /\ sn_pc' = "loop"
              /\ sn_ret' = sn_ret
  /\ UNCHANGED <<snOther, rows, storage, sn_cname, sn_results, sn_ids,
                 sn_run, sn_attempted, sn_deleted, sn_failedAfterRemoval>>

\* for _, r := range results { ...; ids = append(ids, id); cdir := ...
sn_Append ==
  /\ sn_pc = "loop"
  /\ IF sn_k > Len(sn_results)
       THEN /\ sn_pc' = "delete"
            /\ UNCHANGED sn_ids
       ELSE /\ sn_ids' = Append(sn_ids, sn_results[sn_k].id)
            /\ sn_pc' = "rm"
  /\ UNCHANGED <<snOther, rows, storage, sn_cname, sn_results, sn_backingFs,
                 sn_k, sn_j, sn_ret, sn_run, sn_attempted, sn_deleted,
                 sn_failedAfterRemoval>>

\* if backingFs == "btrfs" { btrfsDeleteSubvol(cdir) }; os.RemoveAll(cdir)
\* Both results are dropped; the directory is gone if either call removed it.
sn_RemoveStorage ==
  /\ sn_pc = "rm"
  /\ \E subvolOk, rmOk \in BOOLEAN :
       storage' = IF (sn_backingFs = "btrfs" /\ subvolOk) \/ rmOk
                    THEN storage \ {sn_results[sn_k].name}
                    ELSE storage
  /\ sn_attempted' = sn_attempted \cup {sn_results[sn_k].name}
  /\ sn_k' = sn_k + 1
  /\ sn_pc' = "loop"
  /\ UNCHANGED <<snOther, rows, sn_cname, sn_results, sn_ids, sn_backingFs,
                 sn_j, sn_ret, sn_run, sn_deleted, sn_failedAfterRemoval>>

DeleteLoopReached_Early == sn_pc \in {"rm", "delete"}

\* The second loop starts once the first has ended.
DeleteLoopReached == sn_pc = "delete"

\* for _, id := range ids { dbExec(d.db, "DELETE FROM containers WHERE id=?")
sn_DeleteRow ==
  /\ DeleteLoopReached
  /\ sn_j <= Len(sn_ids)
  /\ \/ /\ rows' = [rows EXCEPT ![sn_ids[sn_j]] = "none"]
        /\ sn_deleted' = sn_deleted \cup {NameOf(sn_ids[sn_j])}
        /\ sn_j' = sn_j + 1
        /\ UNCHANGED <<sn_pc, sn_ret, sn_failedAfterRemoval>>
     \/ /\ sn_Return("err")
        /\ sn_failedAfterRemoval' = TRUE
        /\ UNCHANGED <<rows, sn_deleted, sn_j>>
  /\ UNCHANGED <<snOther, storage, sn_cname, sn_results, sn_ids,
                 sn_backingFs, sn_k, sn_run, sn_attempted>>

\* return nil
sn_Finish ==
  /\ sn_pc = "delete"
  /\ sn_j > Len(sn_ids)
  /\ sn_Return("nil")
  /\ UNCHANGED <<snOther, rows, storage, sn_cname, sn_results, sn_ids,
                 sn_backingFs, sn_k, sn_j, sn_run, sn_attempted, sn_deleted,
                 sn_failedAfterRemoval>>

\* containerDeleteSnapshots is called again for the same instance.
sn_Rerun ==
  /\ sn_pc = "done"
  /\ sn_run < MaxRuns
  /\ sn_run' = sn_run + 1
  /\ sn_pc' = "idle" /\ sn_results' = <<>> /\ sn_ids' = <<>>
  /\ sn_backingFs' = "" /\ sn_k' = 0 /\ sn_j' = 0 /\ sn_ret' = "none"
  /\ sn_attempted' = {} /\ sn_deleted' = {}
  /\ UNCHANGED <<snOther, rows, storage, sn_cname, sn_failedAfterRemoval>>

containerDeleteSnapshots ==
  \/ sn_Query
  \/ sn_Detect
  \/ sn_Append
  \/ sn_RemoveStorage
  \/ sn_DeleteRow
  \/ sn_Finish
  \/ sn_Rerun

SpecSnapshots == InitSnapshots /\ [][containerDeleteSnapshots]_vars

\* =========================================================================
\* startContainer ("lxd forkstart <name> <lxcpath> <configpath>")
\* =========================================================================
FkNames == {"c1", "c2"}
FkConfigPaths == {<<"run", "conf1">>, <<"run", "conf2">>}

\* shared.LogPath(name, "lxc.conf")
LogPath(name) == <<"log", name>>

\* Argument vectors of length 3, 4 and 5.
FkArgs ==
  LET four == {<<"forkstart", n, "lxcpath", p>> :
                 n \in FkNames, p \in FkConfigPaths}
  IN  four \cup {SubSeq(a, 1, 3) : a \in four}
           \cup {Append(a, "extra") : a \in four}

InitForkstart ==
  /\ InstIdle /\ SdIdle /\ RsIdle /\ CwIdle /\ SnIdle /\ TrIdle /\ SsIdle
  /\ fk_args \in FkArgs
  /\ fk_files \in SUBSET (FkConfigPaths \cup {LogPath(n) : n \in FkNames})
  /\ fk_pc = "args" /\ fk_ret = "none" /\ fk_started = FALSE

fk_Return(r) ==
  /\ fk_pc' = "done"
  /\ fk_ret' = r

\* if len(args) != 4 { return fmt.Errorf("Bad arguments: %q\n", args) }
fk_Args ==
  /\ fk_pc = "args"
  /\ IF Len(fk_args) # 4
       THEN fk_Return("err")
       ELSE fk_pc' = "new" /\ fk_ret' = fk_ret
  /\ UNCHANGED <<instVars, sdVars, rsVars, cwVars, snVars, trVars, ssVars,
                 fk_args, fk_files, fk_started>>

\* c, err := lxc.NewContainer(name, lxcpath)
fk_NewContainer ==
  /\ fk_pc = "new"
  /\ \/ fk_pc' = "load" /\ fk_ret' = fk_ret
     \/ fk_Return("err")
  /\ UNCHANGED <<instVars, sdVars, rsVars, cwVars, snVars, trVars, ssVars,
                 fk_args, fk_files, fk_started>>

\* err = c.LoadConfigFile(configPath): fails when there is no file at
\* configPath, and may fail on the file's content.
fk_LoadConfigFile ==
  /\ fk_pc = "load"
  /\ \/ /\ fk_args[4] \in fk_files
        /\ fk_pc' = "start" /\ fk_ret' = fk_ret
     \/ fk_Return("err")
  /\ UNCHANGED <<instVars, sdVars, rsVars, cwVars, snVars, trVars, ssVars,
                 fk_args, fk_files, fk_started>>

\* err = c.Start()
fk_Start ==
  /\ fk_pc = "start"
  /\ \/ fk_started' = TRUE /\ fk_pc' = "move"
     \/ fk_started' = FALSE /\ fk_pc' = "remove"
  /\ UNCHANGED <<instVars, sdVars, rsVars, cwVars, snVars, trVars, ssVars,
                 fk_args, fk_files, fk_ret>>

\* os.Remove(configPath); return err -- the result of Remove is dropped.
fk_Remove ==
  /\ fk_pc = "remove"
  /\ \/ fk_files' = fk_files \ {fk_args[4]}
     \/ UNCHANGED fk_files
  /\ fk_Return("err")
  /\ UNCHANGED <<instVars, sdVars, rsVars, cwVars, snVars, trVars, ssVars,
                 fk_args, fk_started>>

\* shared.FileMove(configPath, shared.LogPath(name, "lxc.conf")); return err
\* -- the result of FileMove is dropped.
fk_FileMove ==
  /\ fk_pc = "move"
  /\ \/ fk_files' = (fk_files \ {fk_args[4]}) \cup {LogPath(fk_args[2])}
     \/ UNCHANGED fk_files
  /\ fk_Return("nil")
  /\ UNCHANGED <<instVars, sdVars, rsVars, cwVars, snVars, trVars, ssVars,
                 fk_args, fk_started>>

startContainer ==
  \/ fk_Args
  \/ fk_NewContainer
  \/ fk_LoadConfigFile
  \/ fk_Start
  \/ fk_Remove
  \/ fk_FileMove

SpecForkstart == InitForkstart /\ [][startContainer]_vars

\* =========================================================================
\* snapshotProtobufToInstanceArgs (src/lxd/storage_migration.go)
\* =========================================================================
TrMaxName == 2

\* time.Time keeps an instant as seconds since January 1 of year 1, held
\* here as a day number and the second of that day; time.Time{} is the zero
\* instant, and time.Unix(sec, 0) is sec seconds after January 1, 1970.
SecondsPerDay == 86400
UnixEpochDay == 719162

ZeroTime == [day |-> 0, sod |-> 0]

TimeUnix(sec) ==
  [day |-> UnixEpochDay + (sec \div SecondsPerDay), sod |-> sec % SecondsPerDay]

\* t.IsZero() and t.Unix()
IsZero(t) == t.day = 0 /\ t.sod = 0
Unix(t) == (t.day - UnixEpochDay) * SecondsPerDay + t.sod

\* for _, ent := range entries { m[ent.GetKey()] = ent.GetValue() }
RECURSIVE ConfigMap(_)
ConfigMap(entries) ==
  IF entries = <<>> THEN <<>>
  ELSE LET n == Len(entries)
           m == ConfigMap(SubSeq(entries, 1, n - 1))
           keys == DOMAIN m \cup {entries[n].key}
       IN  [k \in keys |-> IF k = entries[n].key THEN entries[n].value
                           ELSE m[k]]

\* for _, ent := range snap.LocalDevices { ...; devices[ent.GetName()] = props }
RECURSIVE DeviceMap(_)
DeviceMap(devs) ==
  IF devs = <<>> THEN <<>>
  ELSE LET n == Len(devs)
           m == DeviceMap(SubSeq(devs, 1, n - 1))
           names == DOMAIN m \cup {devs[n].name}
       IN  [d \in names |-> IF d = devs[n].name THEN ConfigMap(devs[n].config)
                            ELSE m[d]]

TrName_NoDelimiter(containerName, snap) == containerName \o snap.Name

\* name := containerName + shared.SnapshotDelimiter + snap.GetName()
TrName(containerName, snap) ==
  containerName \o SnapshotDelimiter \o snap.Name

\* if snap.GetCreationDate() != 0 { args.CreationDate = time.Unix(..., 0) }
TrCreationDate(snap) ==
  IF snap.CreationDate # 0 THEN TimeUnix(snap.CreationDate) ELSE ZeroTime

TrLastUsedDate_FromCreation(snap) ==
  IF snap.CreationDate # 0 THEN TimeUnix(snap.CreationDate) ELSE ZeroTime

\* if snap.GetLastUsedDate() != 0 { args.LastUsedDate = time.Unix(..., 0) }
TrLastUsedDate(snap) ==
  IF snap.LastUsedDate # 0 THEN TimeUnix(snap.LastUsedDate) ELSE ZeroTime

snapshotProtobufToInstanceArgs(project, containerName, snap) ==
  [Architecture |-> snap.Architecture,
   Config       |-> ConfigMap(snap.LocalConfig),
   Type         |-> "container",
   Snapshot     |-> TRUE,
   Devices      |-> DeviceMap(snap.LocalDevices),
   Ephemeral    |-> snap.Ephemeral,
   Name         |-> TrName(containerName, snap),
   Profiles     |-> snap.Profiles,
   Stateful     |-> snap.Stateful,
   Project      |-> project,
   CreationDate |-> TrCreationDate(snap),
   LastUsedDate |-> TrLastUsedDate(snap)]

\* The descriptors the translator is applied to.
RECURSIVE TrNames(_)
TrNames(n) ==
  IF n = 0 THEN {<<>>}
  ELSE TrNames(n - 1) \cup
       {Append(x, c) : x \in TrNames(n - 1), c \in {"d", "/"}}

TrDates == {-1, 0, 1, 1700000000}

TrConfigs ==
  {<<>>, <<[key |-> "k", value |-> "v1"]>>,
   <<[key |-> "k", value |-> "v1"], [key |-> "k", value |-> "v2"]>>}

TrDevices ==
  {<<>>,
   <<[name |-> "eth0", config |-> <<[key |-> "type", value |-> "nic"]>>]>>}

TrSnapshots ==
  [Architecture : {0, 2}, LocalConfig : TrConfigs, LocalDevices : TrDevices,
   Ephemeral : BOOLEAN, Name : TrNames(TrMaxName),
   Profiles : {<<>>, <<"default">>}, Stateful : BOOLEAN,
   CreationDate : TrDates, LastUsedDate : TrDates]

InitTranslate ==
  /\ InstIdle /\ SdIdle /\ RsIdle /\ CwIdle /\ SnIdle /\ FkIdle /\ SsIdle
  /\ tr_project = "default"
  /\ tr_containerName \in Range(Parents)
  /\ tr_snap \in TrSnapshots
  /\ tr_args = <<>>
  /\ tr_pc = "call"

tr_Translate ==
  /\ tr_pc = "call"
  /\ tr_args' =
       snapshotProtobufToInstanceArgs(tr_project, tr_containerName, tr_snap)
  /\ tr_pc' = "done"
  /\ UNCHANGED <<instVars, sdVars, rsVars, cwVars, snVars, fkVars, ssVars,
                 tr_project, tr_containerName, tr_snap>>

SpecTranslate == InitTranslate /\ [][tr_Translate]_vars

\* =========================================================================
\* Session transport (spec 4.1, 4.2) over the execWs record
\* =========================================================================
SsMaxBytes == 2

\* The control channel's logical index, and the channels of a session: the
\* control channel plus one combined data channel (interactive) or the
\* three stdio channels.
Control == 0 - 1
SsFds(interactive) == IF interactive THEN {Control, 0} ELSE {Control, 0, 1, 2}

AllConnected_DataOnly(conns) ==
  \A c \in DOMAIN conns \ {Control} : conns[c]

\* The barrier: logical AND across all required channels, control included.
AllConnected(conns) == \A c \in DOMAIN conns : conns[c]

Finalize_Append(done, result) == Append(done, result)

\* Publishing the terminal result: a second attempt to finalize is a no-op.
Finalize(done, result) == IF done = <<>> THEN <<result>> ELSE done

InitSession ==
  /\ InstIdle /\ SdIdle /\ RsIdle /\ CwIdle /\ SnIdle /\ FkIdle /\ TrIdle
  /\ ss_pc = "open"
  /\ ss_interactive \in BOOLEAN
  /\ ss_waitForWS \in BOOLEAN
  /\ ss_conns = [c \in SsFds(ss_interactive) |-> FALSE]
  /\ ss_allConnected = FALSE
  /\ ss_controlConnected = FALSE
  /\ ss_started = FALSE
  /\ ss_relayed = [c \in SsFds(ss_interactive) |-> 0]
  /\ ss_failed = {}
  /\ ss_done = <<>>
  /\ ss_attempts = 0
  /\ ss_first = "none"

\* One attempt to finalize the session with the given result.
ss_Finalize(result) ==
  /\ ss_done' = Finalize(ss_done, result)
  /\ ss_attempts' = ss_attempts + 1
  /\ ss_first' = IF ss_attempts = 0 THEN result ELSE ss_first
  /\ ss_pc' = "closed"

\* The caller connects channel c: the session records the connection under
\* its logical index and the barriers are released once satisfied.
ss_Connect(c) ==
  /\ ss_pc = "open"
  /\ ~ss_conns[c]
  /\ ss_conns' = [ss_conns EXCEPT ![c] = TRUE]
  /\ ss_controlConnected' = (ss_controlConnected \/ c = Control)
  /\ ss_allConnected' = AllConnected(ss_conns')
  /\ UNCHANGED <<instVars, sdVars, rsVars, cwVars, snVars, fkVars, trVars,
                 ss_pc, ss_interactive, ss_waitForWS, ss_started, ss_relayed,
                 ss_failed, ss_done, ss_attempts, ss_first>>

\* A required channel never connects within the bounded wait.
ss_ConnectTimeout ==
  /\ ss_pc = "open"
  /\ ~ss_allConnected
  /\ ss_Finalize("connect-timeout")
  /\ UNCHANGED <<instVars, sdVars, rsVars, cwVars, snVars, fkVars, trVars,
                 ss_interactive, ss_waitForWS, ss_conns, ss_allConnected,
                 ss_controlConnected, ss_started, ss_relayed, ss_failed>>

\* The command starts: after the barrier when the caller asked to wait for
\* the channels, immediately otherwise.
ss_Start ==
  /\ ss_pc = "open"
  /\ ~ss_started
  /\ ss_waitForWS => ss_allConnected
  /\ ss_started' = TRUE
  /\ UNCHANGED <<instVars, sdVars, rsVars, cwVars, snVars, fkVars, trVars,
                 ss_pc, ss_interactive, ss_waitForWS, ss_conns,
                 ss_allConnected, ss_controlConnected, ss_relayed, ss_failed,
                 ss_done, ss_attempts, ss_first>>

\* The underlying process fails to start, before any relay begins.
ss_StartFailure ==
  /\ ss_pc = "open"
  /\ ~ss_started
  /\ ss_waitForWS => ss_allConnected
  /\ ss_Finalize("start-failure")
  /\ UNCHANGED <<instVars, sdVars, rsVars, cwVars, snVars, fkVars, trVars,
                 ss_interactive, ss_waitForWS, ss_conns, ss_allConnected,
                 ss_controlConnected, ss_started, ss_relayed, ss_failed>>

\* A relay worker moves one byte on data channel c; the workers are
\* released by the barrier.
ss_Relay(c) ==
  /\ ss_pc = "open"
  /\ ss_started
  /\ ss_allConnected
  /\ c # Control
  /\ c \notin ss_failed
  /\ ss_relayed[c] < SsMaxBytes
  /\ ss_relayed' = [ss_relayed EXCEPT ![c] = @ + 1]
  /\ UNCHANGED <<instVars, sdVars, rsVars, cwVars, snVars, fkVars, trVars,
                 ss_pc, ss_interactive, ss_waitForWS, ss_conns,
                 ss_allConnected, ss_controlConnected, ss_started, ss_failed,
                 ss_done, ss_attempts, ss_first>>

\* The underlying process exits: its result is the terminal result.
ss_Exit ==
  /\ ss_pc = "open"
  /\ ss_started
  /\ ss_Finalize("success")
  /\ UNCHANGED <<instVars, sdVars, rsVars, cwVars, snVars, fkVars, trVars,
                 ss_interactive, ss_waitForWS, ss_conns, ss_allConnected,
                 ss_controlConnected, ss_started, ss_relayed, ss_failed>>

\* Channel c fails or closes; its worker attempts to finalize the session.
\* Workers of several channels may do so one after another in any order,
\* also after the result was published.
ss_ChannelFail(c) ==
  /\ ss_pc \in {"open", "closed"}
  /\ ss_conns[c]
  /\ c \notin ss_failed
  /\ ss_failed' = ss_failed \cup {c}
  /\ ss_Finalize("runtime-error")
  /\ UNCHANGED <<instVars, sdVars, rsVars, cwVars, snVars, fkVars, trVars,
                 ss_interactive, ss_waitForWS, ss_conns, ss_allConnected,
                 ss_controlConnected, ss_started, ss_relayed>>

NextSession ==
  \/ \E c \in DOMAIN ss_conns : ss_Connect(c)
  \/ ss_ConnectTimeout
  \/ ss_Start
  \/ ss_StartFailure
  \/ \E c \in DOMAIN ss_conns : ss_Relay(c)
  \/ ss_Exit
  \/ \E c \in DOMAIN ss_conns : ss_ChannelFail(c)

SpecSession == InitSession /\ [][NextSession]_vars

\* =========================================================================
\* Properties
\* =========================================================================

InProgress == {i \in Insts : wk[i] \in {"shutdown", "stop", "wgdone"}}

\* C2: mass shutdown is a parallel fan-out followed by one join: the
\* supervisor blocks in wg.Wait() on a shutdown in progress only after the
\* last instance was visited (so two running instances can be in progress
\* together), with exactly one shutdown attempt per running instance.
C2_ParallelFanOut ==
  /\ (sd_pc = "wait" /\ InProgress # {}) => sd_i = Len(sd_results)
  /\ \A i \in Insts : sd_attempts[i] = IF i \in sd_foundRunning /\
                                         wk[i] # "none" THEN 1 ELSE 0

\* What the code does instead: at most one shutdown is ever in progress.
sd_Serial == Cardinality(InProgress) <= 1

\* C3: a batch is not aborted by one instance's failure: once the list was
\* read, containersShutdown returns only after visiting every instance, and
\* containersRestart, once past the flag clearing, returns only after a start
\* attempt on every instance of its result.
C3_BatchNotAborted ==
  /\ (sd_pc = "done" /\ sd_i > 0) => sd_visited = Range(sd_results)
  /\ (rs_pc = "done" /\ rs_cleared) => rs_attempted = Range(rs_result)

\* C4: containersRestart does not return nil when a start failed.
C4_StartFailureSurfaced ==
  (rs_pc = "done" /\ rs_ret = "nil") => rs_startFailed = {}

C6_StorageBeforeRow ==
  /\ sn_deleted \subseteq sn_attempted
  /\ \A k \in 1..Len(sn_results) :
       rows[sn_results[k].id] = "none" => sn_results[k].name \in sn_attempted

C6_Witness ==
  /\ sn_pc = "done" /\ sn_ret = "nil"
  /\ Cardinality(sn_deleted) >= 2
  /\ sn_deleted \cap storage # {}

\* The snapshot ids of instance c (a row or a storage directory may exist).
SnapshotsOf(c) ==
  {id \in Ids : /\ id % 10 # 0
                /\ SUBSTR(NameOf(id), Len(c) + 1) = c \o SnapshotDelimiter}

\* C7: a run that fails after storage removal and before all rows are deleted
\* leaves only (storage-absent, row-present) snapshots of the instance, and a
\* later run that succeeds leaves neither rows nor storage of its snapshots.
C7_Retriable ==
  /\ (sn_pc = "done" /\ sn_ret = "err" /\ sn_failedAfterRemoval) =>
       \A id \in SnapshotsOf(sn_cname) :
         (rows[id] # "none" \/ NameOf(id) \in storage) =>
           (rows[id] = "snapshot" /\ NameOf(id) \notin storage)
  /\ (sn_pc = "done" /\ sn_ret = "nil" /\ sn_failedAfterRemoval) =>
       \A id \in SnapshotsOf(sn_cname) :
         rows[id] = "none" /\ NameOf(id) \notin storage

\* C8: the watcher never invokes delete on an instance that is already
\* absent from the metadata store.
C8_NoDoubleDelete == w_delAbsent = {}

\* C9: the watcher invokes delete only after stopped, the bounded wait for
\* running, and stopped again, and a restarted instance is not deleted while
\* it is running.
C9_DeleteAfterRestartCheck ==
  /\ \A i \in Insts : w_pc[i] \in {"idget", "delete"} => w_seen[i] = 3
  /\ w_delRunning = {}

\* C10: every ephemeral instance that is running when containersWatch reads
\* the instances (and containersWatch returns nil) and that from some point
\* on stays stopped is eventually absent from the metadata store.
C10_EphemeralReaped ==
  \A i \in Insts :
    (<>(i \in cw_atQuery) /\ <>(cw_ret = "nil") /\ <>[](~running[i]))
      => <>(~present[i])

\* C12: in the per-instance shutdown of mass shutdown, the forced stop is
\* issued only for an instance that was still running when the graceful
\* shutdown timed out.
C12_ForcedStopOnlyAfterTimeout ==
  \A i \in Insts : wk[i] \in {"wgdone", "exited"} => i \in sd_timedOut

\* C17: containersRestart reads the result, then clears every flag, then
\* starts: a start is attempted only after the clearing, when the only flags
\* set are those of instances this pass has started; and when the read or the
\* clearing failed nothing was started.
C17_ClearBeforeStart ==
  /\ rs_cleared => rs_pc # "idle"
  /\ (rs_pc = "start" \/ rs_attempted # {}) =>
       /\ rs_cleared
       /\ \A i \in Insts :
            power_state[i] = 1 => i \in rs_attempted \ rs_startFailed
  /\ ~rs_cleared => (rs_attempted = {} /\ \A i \in Insts : ~running[i])

C17_Witness ==
  /\ rs_pc = "start"
  /\ Len(rs_result) >= 2
  /\ rs_attempted # {}
  /\ \E i \in Insts : power_state[i] = 1

\* C18: a cleanup for instance X that returns nil has deleted every
\* snapshot-typed row whose name starts with X + delimiter, and no step of a
\* cleanup changes any other row or its storage (X itself, other instances,
\* snapshots of other instances, also of one whose name extends X).
C18_InScope(id) ==
  /\ rows[id] = "snapshot"
  /\ Len(NameOf(id)) >= Len(sn_cname) + Len(SnapshotDelimiter)
  /\ SubSeq(NameOf(id), 1, Len(sn_cname)) = sn_cname
  /\ SubSeq(NameOf(id), Len(sn_cname) + 1,
            Len(sn_cname) + Len(SnapshotDelimiter)) = SnapshotDelimiter

C18_CleanupScope ==
  /\ [](sn_pc = "done" /\ sn_ret = "nil"
          => \A id \in Ids : ~C18_InScope(id))
  /\ [][\A id \in Ids :
          (rows'[id] # rows[id] \/
           (NameOf(id) \in storage') # (NameOf(id) \in storage))
            => C18_InScope(id)]_vars

C18_Witness ==
  /\ sn_pc = "done" /\ sn_ret = "nil"
  /\ sn_cname = Parents[1]
  /\ Cardinality(sn_deleted) >= 2
  /\ \E id \in Ids : id \div 10 = 2 /\ rows[id] = "snapshot"
                                    /\ NameOf(id) \in storage

\* C19: a shutdown attempt of an instance begins only with its power_state
\* flag already 1, and the flag is written only for the instance being
\* visited, found running, and only to 1.
C19_FlagBeforeShutdown ==
  /\ [](\A i \in Insts : wk[i] # "none" => power_state[i] = 1)
  /\ [][\A i \in Insts :
          power_state'[i] # power_state[i] =>
            /\ sd_pc = "setflag" /\ i = sd_results[sd_i]
            /\ i \in sd_foundRunning /\ running[i]
            /\ power_state'[i] = 1]_vars

C19_Witness ==
  /\ \E i \in Insts : wk[i] = "shutdown" /\ power_state[i] = 1
  /\ \E j \in sd_visited \ sd_foundRunning : power_state[j] = 0

\* C20: no snapshot row is deleted while the snapshot's backing storage
\* still exists.
C20_NoRowDeletedWithStorage ==
  \A id \in Ids : NameOf(id) \in storage => rows[id] # "none"

\* C11: when startContainer has returned, a failure (of a well-formed
\* invocation) has removed the config file from the config path, a success
\* has moved it to the log location, and the result is a failure exactly
\* when the container did not start.
C11_ConfigDisposed ==
  fk_pc = "done" =>
    /\ (fk_ret = "err" /\ Len(fk_args) = 4) => fk_args[4] \notin fk_files
    /\ fk_ret = "nil" => /\ fk_args[4] \notin fk_files
                         /\ LogPath(fk_args[2]) \in fk_files
    /\ (fk_ret = "err") = ~fk_started

\* C13: a creation date (last-used date) of 0 translates to an unset
\* timestamp and any other value v to the instant v seconds after the epoch,
\* each field on its own.
C13_Timestamps ==
  tr_pc = "done" =>
    /\ tr_snap.CreationDate = 0 => IsZero(tr_args.CreationDate)
    /\ tr_snap.CreationDate # 0 =>
         Unix(tr_args.CreationDate) = tr_snap.CreationDate
    /\ tr_snap.LastUsedDate = 0 => IsZero(tr_args.LastUsedDate)
    /\ tr_snap.LastUsedDate # 0 =>
         Unix(tr_args.LastUsedDate) = tr_snap.LastUsedDate

C13_Witness ==
  /\ tr_pc = "done"
  /\ tr_snap.CreationDate = 0 /\ tr_snap.LastUsedDate = 1700000000
  /\ IsZero(tr_args.CreationDate) /\ ~IsZero(tr_args.LastUsedDate)

\* C14: the translated name is the parent name, then the snapshot delimiter,
\* then the descriptor's name, and the record is marked as a snapshot.
C14_SnapshotName ==
  tr_pc = "done" =>
    LET n == tr_args.Name
        p == Len(tr_containerName)
        d == Len(SnapshotDelimiter)
    IN  /\ Len(n) = p + d + Len(tr_snap.Name)
        /\ SubSeq(n, 1, p) = tr_containerName
        /\ SubSeq(n, p + 1, p + d) = SnapshotDelimiter
        /\ SubSeq(n, p + d + 1, Len(n)) = tr_snap.Name
        /\ tr_args.Snapshot = TRUE

C14_Witness ==
  /\ tr_pc = "done"
  /\ tr_containerName = Parents[2]
  /\ Len(tr_snap.Name) = 2
  /\ Len(tr_args.Name) = 5

\* C15: no byte has been relayed on any channel of a session in a state in
\* which fewer than all K of its channels (control and data) have connected.
C15_ChannelBarrier ==
  (\E c \in DOMAIN ss_relayed : ss_relayed[c] > 0) =>
    Cardinality({c \in DOMAIN ss_conns : ss_conns[c]}) =
      Cardinality(SsFds(ss_interactive))

C15_Witness ==
  /\ ~ss_interactive
  /\ ss_relayed[0] > 0 /\ ss_relayed[2] > 0
  /\ \A c \in SsFds(FALSE) : ss_conns[c]

\* C16: however many channels fail or close, and in whatever order, the
\* session holds exactly one terminal result, the one of the first attempt
\* to finalize; later attempts change nothing.
C16_SingleResult ==
  /\ Len(ss_done) <= 1
  /\ ss_attempts > 0 => ss_done = <<ss_first>>

C16_Witness ==
  /\ ss_attempts >= 3
  /\ Cardinality(ss_failed) >= 2
  /\ Len(ss_done) = 1

====
